---- MODULE Spec2Model ----
(***************************************************************************)
(* Model of the AgentFleet hardware abstraction layer (RobotHAL), of the   *)
(* fleet conflict check (CollisionChecker) and of the callers' use of      *)
(* them.  Every std::atomic load and store of RobotHAL is one step of the  *)
(* thread that executes it.  Coordinates are fixed-point numbers: the      *)
(* integer c stands for the double c / Scale.  The path smoother is        *)
(* modelled over a small binary floating-point format (MantBits, FracBits) *)
(* with round-to-nearest-even, so that exact equality of doubles is        *)
(* something the model can refute.                                         *)
(***************************************************************************)
EXTENDS Integers, Sequences, FiniteSets, TLC

\* ------------------------------------------------------------------------
\* Bounds of the model
\* ------------------------------------------------------------------------
Scale == 2        \* coordinates are multiples of 1/Scale
MaxSent == 2      \* commands forwarded to the transport before calls stop
DrawRes == 4      \* the PRNG draw d stands for d / DrawRes in [0, 1)

\* ------------------------------------------------------------------------
\* enum class FaultState / enum class RobotStatus
\* ------------------------------------------------------------------------
NONE == 0
MOTOR_TIMEOUT == 1
PACKET_DROP == 2
SENSOR_FREEZE == 3
FaultState == {NONE, MOTOR_TIMEOUT, PACKET_DROP, SENSOR_FREEZE}

IDLE == 0
NAVIGATING == 1
STUCK == 2
RECOVERING == 3
FAULT == 4
RobotStatus == {IDLE, NAVIGATING, STUCK, RECOVERING, FAULT}

status_to_string(s) ==
  CASE s = IDLE -> "IDLE"
    [] s = NAVIGATING -> "NAVIGATING"
    [] s = STUCK -> "STUCK"
    [] s = RECOVERING -> "RECOVERING"
    [] s = FAULT -> "FAULT"
    [] OTHER -> "UNKNOWN"

\* ------------------------------------------------------------------------
\* Robots, threads, inputs
\* ------------------------------------------------------------------------
Robots == {"r1", "r2"}

\* ctl: control loop; odom: the ROS spin thread; flt: fault-injection caller;
\* rdr: a monitoring reader.  All four work on robot r1.
HalThreads == {"ctl", "odom", "flt", "rdr"}
\* p1, p2: the planners of robots r1 and r2
Planners == {"p1", "p2"}
Threads == HalThreads \cup Planners

Rob(t) == IF t = "p2" THEN "r2" ELSE "r1"

Null == "null"
Void == "void"

\* velocity commands (linear_x, angular_z) the control loop issues
VelArgs == {<<1, 0>>}
\* set_target arguments
TargetArgs == {<<1, 2>>, <<2, 1>>}

\* odometry messages: position and orientation quaternion (w, x, y, z),
\* the quaternion given unnormalised as integers
OdomMsgs ==
  { [x |-> 1, y |-> 1, q |-> <<1, 0, 0, 1>>],
    [x |-> 2, y |-> 2, q |-> <<0, 0, 0, 1>>] }

\* ------------------------------------------------------------------------
\* Strings are sequences of characters
\* ------------------------------------------------------------------------
UpperOf ==
  [ a |-> "A", c |-> "C", d |-> "D", e |-> "E", f |-> "F", i |-> "I",
    k |-> "K", m |-> "M", n |-> "N", o |-> "O", p |-> "P", r |-> "R",
    s |-> "S", t |-> "T", u |-> "U", z |-> "Z" ]

ToUpperChar(c) == IF c \in DOMAIN UpperOf THEN UpperOf[c] ELSE c
ToLowerChar(c) ==
  IF \E l \in DOMAIN UpperOf : UpperOf[l] = c
  THEN CHOOSE l \in DOMAIN UpperOf : UpperOf[l] = c
  ELSE c
ToLower(str) == [i \in DOMAIN str |-> ToLowerChar(str[i])]

\* the six literals inject_fault compares its argument with
STR_motor_timeout == <<"m","o","t","o","r","_","t","i","m","e","o","u","t">>
STR_MOTOR_TIMEOUT == <<"M","O","T","O","R","_","T","I","M","E","O","U","T">>
STR_packet_drop == <<"p","a","c","k","e","t","_","d","r","o","p">>
STR_PACKET_DROP == <<"P","A","C","K","E","T","_","D","R","O","P">>
STR_sensor_freeze == <<"s","e","n","s","o","r","_","f","r","e","e","z","e">>
STR_SENSOR_FREEZE == <<"S","E","N","S","O","R","_","F","R","E","E","Z","E">>

FaultNames == {STR_motor_timeout, STR_packet_drop, STR_sensor_freeze}

\* str with the characters at the positions in mask upper-cased
CaseVariant(str, mask) ==
  [i \in DOMAIN str |-> IF i \in mask THEN ToUpperChar(str[i]) ELSE str[i]]

\* positions of the first letter of each word of str
WordStarts(str) ==
  {i \in DOMAIN str : str[i] # "_" /\ (i = 1 \/ str[i - 1] = "_")}

CaseMasks(str) ==
  { {}, DOMAIN str, {1}, WordStarts(str), DOMAIN str \ WordStarts(str) }

\* the identifiers handed to inject_fault
FaultInputs ==
  UNION { {CaseVariant(n, m) : m \in CaseMasks(n)} : n \in FaultNames }
  \cup { <<"b","o","g","u","s">>, <<>>, <<"n","o","n","e">> }

\* ------------------------------------------------------------------------
\* State
\* ------------------------------------------------------------------------
VARIABLES
  fault_state,   \* RobotHAL::fault_state_, per robot
  status,        \* RobotHAL::status_
  pose_x,        \* RobotHAL::pose_x_
  pose_y,        \* RobotHAL::pose_y_
  yaw,           \* RobotHAL::yaw_, in quarter turns
  target_x,      \* RobotHAL::target_x_
  target_y,      \* RobotHAL::target_y_
  cmd_vel_pub,   \* RobotHAL::cmd_vel_pub_ is non-null
  transport,     \* the messages published on /<robot>/cmd_vel, in order
  pc,            \* per thread: the next atomic step of its call
  op,            \* per thread: the operation it is executing
  arg,           \* per thread: the arguments of the call
  tmp,           \* per thread: the locals of the call
  res,           \* per thread: the value the call returned
  sched,         \* "seq": calls never overlap; "conc": threads interleave
  window,        \* the fault operation that returned last ("motor_timeout"
                 \* for inject_fault("motor_timeout"), "clear", "other"),
                 \* "busy" once a fault operation has been called since
  pre,           \* per thread: the robot's fields when its current fault
                 \* operation was called
  freezeAt,      \* the pose stored when inject_fault("sensor_freeze")
                 \* returned, <<>> once fault_state_ is stored again
  obs,           \* the reader's get_fault_state / get_status pair: the
                 \* values read and the pairs a snapshot may show
  ccIn,          \* the arguments of a check_path_conflict call
  ccOut,         \* its result
  sticky_zone,   \* CollisionChecker::sticky_zone_
  lastZone,      \* the arguments of the last set_sticky_zone call
  pfIn,          \* the call of a pure function: its name and arguments
  pfOut,         \* its result
  pfLoc          \* the locals of a running resample_path call, and iter,
                 \* the number of loop iterations it has made

halVars == <<fault_state, status, pose_x, pose_y, yaw, target_x, target_y,
             cmd_vel_pub, transport>>
thrVars == <<pc, op, arg, tmp, res>>
ghostVars == <<sched, window, pre, freezeAt, obs>>
\* the variables of the specifications of pure functions
pureVars == <<ccIn, ccOut, sticky_zone, lastZone, pfIn, pfOut, pfLoc>>
vars == <<fault_state, status, pose_x, pose_y, yaw, target_x, target_y,
          cmd_vel_pub, transport, pc, op, arg, tmp, res, sched, window, pre,
          freezeAt, obs, ccIn, ccOut, sticky_zone, lastZone, pfIn, pfOut,
          pfLoc>>

Upd(f, k, v) == [f EXCEPT ![k] = v]

\* the state after RobotHAL::RobotHAL for every robot
InitHal ==
  /\ fault_state = [r \in Robots |-> NONE]
  /\ status = [r \in Robots |-> IDLE]
  /\ pose_x = [r \in Robots |-> 0]
  /\ pose_y = [r \in Robots |-> 0]
  /\ yaw = [r \in Robots |-> 0]
  /\ target_x = [r \in Robots |-> 0]
  /\ target_y = [r \in Robots |-> 0]
  /\ cmd_vel_pub = [r \in Robots |-> TRUE]
  /\ transport = [r \in Robots |-> <<>>]

\* no pair read is in progress or waiting to be judged
NoObs == [fault |-> NONE, status |-> Null, complete |-> TRUE, ok |-> {}]

InitThreads ==
  /\ pc = [t \in Threads |-> "idle"]
  /\ op = [t \in Threads |-> Null]
  /\ arg = [t \in Threads |-> <<>>]
  /\ tmp = [t \in Threads |-> <<>>]
  /\ res = [t \in Threads |-> Null]
  /\ window = "none"
  /\ pre = [t \in Threads |-> <<>>]
  /\ freezeAt = <<>>
  /\ obs = NoObs

\* no call of a pure function has been made
NoCall == [op |-> Null]
NoResult == [done |-> FALSE]
NoLocals == [pc |-> "idle"]

\* the CollisionChecker after its constructor: StickyZone's default members
InitChecker ==
  /\ sticky_zone = [x_min |-> 5, x_max |-> 7, y_min |-> 5, y_max |-> 7]
  /\ lastZone = <<>>
  /\ pfIn = NoCall
  /\ pfOut = NoResult
  /\ pfLoc = NoLocals

\* no pure function is being applied
InitPure ==
  /\ ccIn = <<>>
  /\ ccOut = [done |-> FALSE, v |-> FALSE]
  /\ InitChecker

\* a thread may begin a call when it is idle and, under the sequential
\* discipline, no other call is in progress
CanCall(t) ==
  /\ pc[t] = "idle"
  /\ sched = "seq" => \A u \in Threads : pc[u] = "idle"

Call(t, o, a, l, next) ==
  /\ CanCall(t)
  /\ pc' = Upd(pc, t, next)
  /\ op' = Upd(op, t, o)
  /\ arg' = Upd(arg, t, a)
  /\ tmp' = Upd(tmp, t, l)
  /\ res' = Upd(res, t, Null)

\* the call of thread t returns v
Done(t, v) ==
  /\ pc' = Upd(pc, t, "done")
  /\ res' = Upd(res, t, v)

Goto(t, next) ==
  /\ pc' = Upd(pc, t, next)
  /\ res' = res

\* ------------------------------------------------------------------------
\* publish_cmd_vel / stop
\* ------------------------------------------------------------------------
Draws == 0 .. (DrawRes - 1)

\* a draw that never drops
BelowHalfNever(d) == FALSE

\* drop_dist_(rng_) < 0.5
BelowHalf(d) == 2 * d < DrawRes

\* a gate without the MOTOR_TIMEOUT branch
FaultGateNoBlock(fault, d) ==
  IF fault = PACKET_DROP /\ BelowHalf(d) THEN "dropped" ELSE "forward"

\* what publish_cmd_vel decides from the fault it loaded and the draw
FaultGate(fault, d) ==
  IF fault = MOTOR_TIMEOUT THEN "blocked"
  ELSE IF fault = PACKET_DROP /\ BelowHalf(d) THEN "dropped"
  ELSE "forward"

\* the value the running call returns to its caller: stop() discards the
\* result of publish_cmd_vel
PubResult(t, b) == IF op[t] = "stop" THEN Void ELSE b

CallPublishCmdVel(t) ==
  /\ Len(transport[Rob(t)]) < MaxSent
  /\ \E v \in VelArgs :
       Call(t, "publish_cmd_vel", v,
            [n0 |-> Len(transport[Rob(t)]), fault |-> Null, d |-> Null,
             ret |-> Null], "pub_load")
  /\ UNCHANGED <<halVars, sched, pureVars, freezeAt, obs, window, pre>>

\* a stop that repeats a forward command
StopArgsNonZero == <<1, 0>>

\* stop() is publish_cmd_vel(0.0, 0.0)
StopArgs == <<0, 0>>

CallStop(t) ==
  /\ Len(transport[Rob(t)]) < MaxSent
  /\ Call(t, "stop", StopArgs,
          [n0 |-> Len(transport[Rob(t)]), fault |-> Null, d |-> Null,
             ret |-> Null], "pub_load")
  /\ UNCHANGED <<halVars, sched, pureVars, freezeAt, obs, window, pre>>

\* FaultState fault = fault_state_.load(), and the two fault branches; the
\* generator is drawn from only in the PACKET_DROP branch
PubLoad(t) ==
  /\ pc[t] = "pub_load"
  /\ \E d \in Draws :
       LET fault == fault_state[Rob(t)]
           g == FaultGate(fault, d)
           l == [tmp[t] EXCEPT !.fault = fault,
                               !.d = IF fault = PACKET_DROP THEN d ELSE Null]
       IN
       IF g = "forward"
       THEN /\ Goto(t, "pub_send")
            /\ tmp' = Upd(tmp, t, l)
       ELSE /\ Done(t, PubResult(t, FALSE))
            /\ tmp' = Upd(tmp, t, [l EXCEPT !.ret = FALSE])
  /\ UNCHANGED <<halVars, op, arg, sched, pureVars, freezeAt, obs, window, pre>>

\* if (!cmd_vel_pub_) return false; cmd_vel_pub_->publish(msg); return true
PubSend(t) ==
  /\ pc[t] = "pub_send"
  /\ IF ~cmd_vel_pub[Rob(t)]
     THEN /\ Done(t, PubResult(t, FALSE))
          /\ tmp' = Upd(tmp, t, [tmp[t] EXCEPT !.ret = FALSE])
          /\ transport' = transport
     ELSE /\ Done(t, PubResult(t, TRUE))
          /\ tmp' = Upd(tmp, t, [tmp[t] EXCEPT !.ret = TRUE])
          /\ transport' =
               Upd(transport, Rob(t), Append(transport[Rob(t)], arg[t]))
  /\ UNCHANGED <<fault_state, status, pose_x, pose_y, yaw, target_x, target_y,
                 cmd_vel_pub, op, arg, sched, pureVars, freezeAt, obs, window, pre>>

\* ------------------------------------------------------------------------
\* set_status / set_target
\* ------------------------------------------------------------------------
CallSetStatus(t) ==
  /\ \E s \in RobotStatus : Call(t, "set_status", s, <<>>, "ss_store")
  /\ UNCHANGED <<halVars, sched, pureVars, freezeAt, obs, window, pre>>

SetStatusStore(t) ==
  /\ pc[t] = "ss_store"
  /\ status' = Upd(status, Rob(t), arg[t])
  /\ Done(t, Void)
  /\ UNCHANGED <<fault_state, pose_x, pose_y, yaw, target_x, target_y,
                 cmd_vel_pub, transport, op, arg, tmp, sched, pureVars, freezeAt, obs, window, pre>>

CallSetTarget(t) ==
  /\ \E a \in TargetArgs : Call(t, "set_target", a, <<>>, "st_x")
  /\ UNCHANGED <<halVars, sched, pureVars, freezeAt, obs, window, pre>>

SetTargetStoreX(t) ==
  /\ pc[t] = "st_x"
  /\ target_x' = Upd(target_x, Rob(t), arg[t][1])
  /\ Goto(t, "st_y")
  /\ UNCHANGED <<fault_state, status, pose_x, pose_y, yaw, target_y,
                 cmd_vel_pub, transport, op, arg, tmp, sched, pureVars, freezeAt, obs, window, pre>>

SetTargetStoreY(t) ==
  /\ pc[t] = "st_y"
  /\ target_y' = Upd(target_y, Rob(t), arg[t][2])
  /\ Done(t, Void)
  /\ UNCHANGED <<fault_state, status, pose_x, pose_y, yaw, target_x,
                 cmd_vel_pub, transport, op, arg, tmp, sched, pureVars, freezeAt, obs, window, pre>>

\* ------------------------------------------------------------------------
\* odom_callback (runs on the spin thread)
\* ------------------------------------------------------------------------
\* std::atan2(s, c) in quarter turns, for arguments on the axes
Atan2Q(s, c) ==
  CASE s = 0 /\ c > 0 -> 0
    [] s > 0 /\ c = 0 -> 1
    [] s = 0 /\ c < 0 -> 2
    [] s < 0 /\ c = 0 -> -1

\* the yaw of the quaternion q = (w, x, y, z) / sqrt(n), n its squared norm:
\* atan2(2 (w z + x y), 1 - 2 (y y + z z)), both arguments scaled by n
YawOf(q) ==
  LET n == q[1] * q[1] + q[2] * q[2] + q[3] * q[3] + q[4] * q[4]
      siny_cosp == 2 * (q[1] * q[4] + q[2] * q[3])
      cosy_cosp == n - 2 * (q[3] * q[3] + q[4] * q[4])
  IN Atan2Q(siny_cosp, cosy_cosp)

CallOdomCallback(t) ==
  /\ \E m \in OdomMsgs : Call(t, "odom_callback", m, <<>>, "od_check")
  /\ UNCHANGED <<halVars, sched, pureVars, freezeAt, obs, window, pre>>

\* if (fault_state_.load() == FaultState::SENSOR_FREEZE) return;
OdomCheck(t) ==
  /\ pc[t] = "od_check"
  /\ IF fault_state[Rob(t)] = SENSOR_FREEZE
     THEN Done(t, Void)
     ELSE Goto(t, "od_x")
  /\ UNCHANGED <<halVars, op, arg, tmp, sched, pureVars, freezeAt, obs, window, pre>>

OdomStoreX(t) ==
  /\ pc[t] = "od_x"
  /\ pose_x' = Upd(pose_x, Rob(t), arg[t].x)
  /\ Goto(t, "od_y")
  /\ UNCHANGED <<fault_state, status, pose_y, yaw, target_x, target_y,
                 cmd_vel_pub, transport, op, arg, tmp, sched, pureVars, freezeAt, obs, window, pre>>

OdomStoreY(t) ==
  /\ pc[t] = "od_y"
  /\ pose_y' = Upd(pose_y, Rob(t), arg[t].y)
  /\ Goto(t, "od_yaw")
  /\ UNCHANGED <<fault_state, status, pose_x, yaw, target_x, target_y,
                 cmd_vel_pub, transport, op, arg, tmp, sched, pureVars, freezeAt, obs, window, pre>>

OdomStoreYaw(t) ==
  /\ pc[t] = "od_yaw"
  /\ yaw' = Upd(yaw, Rob(t), YawOf(arg[t].q))
  /\ Done(t, Void)
  /\ UNCHANGED <<fault_state, status, pose_x, pose_y, target_x, target_y,
                 cmd_vel_pub, transport, op, arg, tmp, sched, pureVars, freezeAt, obs, window, pre>>

\* ------------------------------------------------------------------------
\* inject_fault / clear_faults
\* ------------------------------------------------------------------------
\* an if-chain that folds the case of fault_type before comparing
MatchFaultIgnoreCase(fault_type) ==
  LET l == ToLower(fault_type) IN
  IF l = STR_motor_timeout THEN {MOTOR_TIMEOUT}
  ELSE IF l = STR_packet_drop THEN {PACKET_DROP}
  ELSE IF l = STR_sensor_freeze THEN {SENSOR_FREEZE}
  ELSE {}

\* an if-chain whose final else branch injects a motor timeout
MatchFaultDefault(fault_type) ==
  IF fault_type = STR_motor_timeout \/ fault_type = STR_MOTOR_TIMEOUT
  THEN {MOTOR_TIMEOUT}
  ELSE IF fault_type = STR_packet_drop \/ fault_type = STR_PACKET_DROP
  THEN {PACKET_DROP}
  ELSE IF fault_type = STR_sensor_freeze \/ fault_type = STR_SENSOR_FREEZE
  THEN {SENSOR_FREEZE}
  ELSE {MOTOR_TIMEOUT}

\* the fault kind the if-chain of inject_fault selects for fault_type: a
\* singleton, or the empty set when no branch matches
MatchFault(fault_type) ==
  IF fault_type = STR_motor_timeout \/ fault_type = STR_MOTOR_TIMEOUT
  THEN {MOTOR_TIMEOUT}
  ELSE IF fault_type = STR_packet_drop \/ fault_type = STR_PACKET_DROP
  THEN {PACKET_DROP}
  ELSE IF fault_type = STR_sensor_freeze \/ fault_type = STR_SENSOR_FREEZE
  THEN {SENSOR_FREEZE}
  ELSE {}

\* the window the return of inject_fault(fault_type) opens
InjectWindow(fault_type) ==
  IF fault_type = STR_motor_timeout THEN "motor_timeout" ELSE "other"

\* the fields a fault operation is specified over, at its call
PreState(r) ==
  [ status |-> status[r], fault |-> fault_state[r],
    pose |-> <<pose_x[r], pose_y[r], yaw[r]>>,
    target |-> <<target_x[r], target_y[r]>> ]

\* an inject_fault that forces status FAULT for every kind
ForcesFaultStatusAlways(k) == k # {}

\* inject_fault stores status FAULT after the fault k it matched
ForcesFaultStatus(k) == k = {MOTOR_TIMEOUT}

\* a clear_faults that resets the status whatever it was
ResetsStatusAlways(st) == TRUE

\* clear_faults resets the status st it loaded
ResetsStatus(st) == st = FAULT

\* the (status, fault) pair a fault operation called in the pair p returns
\* in when nothing interferes with it
AfterInject(p, fault_type) ==
  LET k == MatchFault(fault_type) IN
  IF k = {} THEN p
  ELSE <<IF ForcesFaultStatus(k) THEN FAULT ELSE p[1], CHOOSE f \in k : TRUE>>

AfterClear(p) == <<IF ResetsStatus(p[1]) THEN IDLE ELSE p[1], NONE>>

StatusFault(r) == <<status[r], fault_state[r]>>

\* a fault operation has been called: a pair read in progress may from now
\* on show the pair q the operation ends in
ObsAdd(q) ==
  obs' = IF ~obs.complete
         THEN [obs EXCEPT !.ok = @ \cup {q}]
         ELSE obs

CallInjectFault(t) ==
  /\ \E str \in FaultInputs :
       /\ Call(t, "inject_fault", str, <<>>, "inj_match")
       /\ ObsAdd(AfterInject(StatusFault(Rob(t)), str))
  /\ window' = "busy"
  /\ pre' = Upd(pre, t, PreState(Rob(t)))
  /\ UNCHANGED <<halVars, sched, pureVars, freezeAt>>

\* the if-chain and the fault_state_.store of the branch taken
InjectMatch(t) ==
  /\ pc[t] = "inj_match"
  /\ LET k == MatchFault(arg[t]) IN
       IF k = {}
       THEN /\ Done(t, Void)
            /\ fault_state' = fault_state
            /\ window' = InjectWindow(arg[t])
            /\ freezeAt' = freezeAt
       ELSE /\ fault_state' = Upd(fault_state, Rob(t), CHOOSE f \in k : TRUE)
            /\ freezeAt' = IF k = {SENSOR_FREEZE}
                           THEN <<pose_x[Rob(t)], pose_y[Rob(t)], yaw[Rob(t)]>>
                           ELSE <<>>
            /\ IF ForcesFaultStatus(k)
               THEN Goto(t, "inj_status") /\ window' = window
               ELSE Done(t, Void) /\ window' = InjectWindow(arg[t])
  /\ UNCHANGED <<status, pose_x, pose_y, yaw, target_x, target_y,
                 cmd_vel_pub, transport, op, arg, tmp, sched, pureVars, obs, pre>>

\* status_.store(RobotStatus::FAULT)
InjectStoreStatus(t) ==
  /\ pc[t] = "inj_status"
  /\ status' = Upd(status, Rob(t), FAULT)
  /\ Done(t, Void)
  /\ window' = InjectWindow(arg[t])
  /\ UNCHANGED <<fault_state, pose_x, pose_y, yaw, target_x, target_y,
                 cmd_vel_pub, transport, op, arg, tmp, sched, pureVars, freezeAt, obs, pre>>

CallClearFaults(t) ==
  /\ Call(t, "clear_faults", <<>>, [st |-> Null], "clr_fault")
  /\ ObsAdd(AfterClear(StatusFault(Rob(t))))
  /\ window' = "busy"
  /\ pre' = Upd(pre, t, PreState(Rob(t)))
  /\ UNCHANGED <<halVars, sched, pureVars, freezeAt>>

\* fault_state_.store(FaultState::NONE)
ClearStoreFault(t) ==
  /\ pc[t] = "clr_fault"
  /\ fault_state' = Upd(fault_state, Rob(t), NONE)
  /\ Goto(t, "clr_load")
  /\ freezeAt' = <<>>
  /\ UNCHANGED <<status, pose_x, pose_y, yaw, target_x, target_y,
                 cmd_vel_pub, transport, op, arg, tmp, sched, pureVars, obs, window, pre>>

\* status_.load() == RobotStatus::FAULT
ClearLoadStatus(t) ==
  /\ pc[t] = "clr_load"
  /\ tmp' = Upd(tmp, t, [st |-> status[Rob(t)]])
  /\ IF ResetsStatus(status[Rob(t)])
     THEN Goto(t, "clr_store") /\ window' = window
     ELSE Done(t, Void) /\ window' = "clear"
  /\ UNCHANGED <<halVars, op, arg, sched, pureVars, freezeAt, obs, pre>>

\* status_.store(RobotStatus::IDLE)
ClearStoreStatus(t) ==
  /\ pc[t] = "clr_store"
  /\ status' = Upd(status, Rob(t), IDLE)
  /\ Done(t, Void)
  /\ window' = "clear"
  /\ UNCHANGED <<fault_state, pose_x, pose_y, yaw, target_x, target_y,
                 cmd_vel_pub, transport, op, arg, tmp, sched, pureVars, freezeAt, obs, pre>>

\* ------------------------------------------------------------------------
\* getters
\* ------------------------------------------------------------------------
\* the fault operations in progress on the robot
FaultOpsRunning ==
  {t \in Threads :
     pc[t] \in {"inj_match", "inj_status", "clr_fault", "clr_load", "clr_store"}}

\* the (status, fault) pairs a snapshot taken now may show: the pair the
\* robot is in when no fault operation is running, else the pairs before and
\* after the running operation
QuietPairs(r) ==
  IF FaultOpsRunning = {} THEN {StatusFault(r)}
  ELSE UNION { LET p == <<pre[t].status, pre[t].fault>> IN
               { p, IF op[t] = "inject_fault" THEN AfterInject(p, arg[t])
                    ELSE AfterClear(p) } : t \in FaultOpsRunning }

CallGetPose(t) ==
  /\ Call(t, "get_pose", <<>>, [x |-> Null], "gp_x")
  /\ UNCHANGED <<halVars, sched, pureVars, freezeAt, obs, window, pre>>

GetPoseLoadX(t) ==
  /\ pc[t] = "gp_x"
  /\ tmp' = Upd(tmp, t, [x |-> pose_x[Rob(t)]])
  /\ Goto(t, "gp_y")
  /\ UNCHANGED <<halVars, op, arg, sched, pureVars, freezeAt, obs, window, pre>>

GetPoseLoadY(t) ==
  /\ pc[t] = "gp_y"
  /\ Done(t, <<tmp[t].x, pose_y[Rob(t)]>>)
  /\ UNCHANGED <<halVars, op, arg, tmp, sched, pureVars, freezeAt, obs, window, pre>>

CallGetStatus(t) ==
  /\ Call(t, "get_status", <<>>, <<>>, "gs_load")
  /\ UNCHANGED <<halVars, sched, pureVars, freezeAt, obs, window, pre>>

GetStatusLoad(t) ==
  /\ pc[t] = "gs_load"
  /\ Done(t, status_to_string(status[Rob(t)]))
  /\ obs' = IF ~obs.complete
            THEN [obs EXCEPT !.status = status_to_string(status[Rob(t)]),
                             !.complete = TRUE]
            ELSE obs
  /\ UNCHANGED <<halVars, op, arg, tmp, sched, pureVars, freezeAt, window, pre>>

CallGetFaultState(t) ==
  /\ Call(t, "get_fault_state", <<>>, <<>>, "gf_load")
  /\ UNCHANGED <<halVars, sched, pureVars, freezeAt, obs, window, pre>>

GetFaultStateLoad(t) ==
  /\ pc[t] = "gf_load"
  /\ Done(t, fault_state[Rob(t)])
  /\ obs' = [ fault |-> fault_state[Rob(t)], status |-> Null,
              complete |-> FALSE, ok |-> QuietPairs(Rob(t)) ]
  /\ UNCHANGED <<halVars, op, arg, tmp, sched, pureVars, freezeAt, window, pre>>

\* the caller takes the returned value; the thread is idle again
Return(t) ==
  /\ pc[t] = "done"
  /\ pc' = Upd(pc, t, "idle")
  /\ op' = Upd(op, t, Null)
  /\ arg' = Upd(arg, t, <<>>)
  /\ tmp' = Upd(tmp, t, <<>>)
  /\ res' = Upd(res, t, Null)
  /\ pre' = Upd(pre, t, <<>>)
  /\ obs' = IF op[t] = "get_status" THEN NoObs ELSE obs
  /\ UNCHANGED <<halVars, sched, pureVars, freezeAt, window>>

\* ------------------------------------------------------------------------
\* Spec: the operations of one robot, called one after another
\* ------------------------------------------------------------------------
Init ==
  /\ InitHal
  /\ InitThreads
  /\ InitPure
  /\ sched = "seq"

Next ==
  \/ CallPublishCmdVel("ctl")
  \/ CallStop("ctl")
  \/ PubLoad("ctl")
  \/ PubSend("ctl")
  \/ CallSetStatus("ctl")
  \/ SetStatusStore("ctl")
  \/ CallSetTarget("ctl")
  \/ SetTargetStoreX("ctl")
  \/ SetTargetStoreY("ctl")
  \/ CallOdomCallback("odom")
  \/ OdomCheck("odom")
  \/ OdomStoreX("odom")
  \/ OdomStoreY("odom")
  \/ OdomStoreYaw("odom")
  \/ CallInjectFault("flt")
  \/ InjectMatch("flt")
  \/ InjectStoreStatus("flt")
  \/ CallClearFaults("flt")
  \/ ClearStoreFault("flt")
  \/ ClearLoadStatus("flt")
  \/ ClearStoreStatus("flt")
  \/ \E t \in {"ctl", "odom", "flt"} : Return(t)

Spec == Init /\ [][Next]_vars

TypeOK ==
  /\ \A r \in Robots :
       /\ fault_state[r] \in FaultState
       /\ status[r] \in RobotStatus
       /\ Len(transport[r]) <= MaxSent
  /\ sched \in {"seq", "conc"}

\* ------------------------------------------------------------------------
\* Properties of the sequential specification
\* ------------------------------------------------------------------------
Pose(r) == <<pose_x[r], pose_y[r], yaw[r]>>
Target(r) == <<target_x[r], target_y[r]>>

\* the call of thread t has returned and was a call of operation o
Returned(t, o) == pc[t] = "done" /\ op[t] = o

\* the call of thread t appended nothing to the transport
ForwardedNothing(t) == Len(transport[Rob(t)]) = tmp[t].n0

\* the call of thread t appended exactly the command v to the transport
ForwardedOnly(t, v) ==
  /\ Len(transport[Rob(t)]) = tmp[t].n0 + 1
  /\ transport[Rob(t)][Len(transport[Rob(t)])] = v

\* C1: once inject_fault("motor_timeout") has returned and no clear_faults
\* or inject_fault has been called since, every publish_cmd_vel call returns
\* false and forwards no command to the transport.
C1_MotorTimeoutBlocks ==
  (Returned("ctl", "publish_cmd_vel") /\ window = "motor_timeout")
    => (res["ctl"] = FALSE /\ ForwardedNothing("ctl"))

\* a publish_cmd_vel call was blocked in the motor-timeout window, after the
\* status had been moved away from FAULT by set_status
C1_Witness ==
  /\ Returned("ctl", "publish_cmd_vel")
  /\ window = "motor_timeout"
  /\ status["r1"] = NAVIGATING
  /\ res["ctl"] = FALSE

\* C2: stop() is publish_cmd_vel(0, 0) under the same gating: with fault
\* MOTOR_TIMEOUT it forwards nothing, with fault NONE or SENSOR_FREEZE it
\* forwards exactly one zero-velocity command.
C2_StopIsGatedZeroCommand ==
  Returned("ctl", "stop") =>
    /\ arg["ctl"] = <<0, 0>>
    /\ fault_state["r1"] = MOTOR_TIMEOUT =>
         (tmp["ctl"].ret = FALSE /\ ForwardedNothing("ctl"))
    /\ fault_state["r1"] \in {NONE, SENSOR_FREEZE} =>
         (tmp["ctl"].ret = TRUE /\ ForwardedOnly("ctl", <<0, 0>>))

\* a stop() call was blocked by the motor-timeout fault
C2_Witness ==
  /\ Returned("ctl", "stop")
  /\ fault_state["r1"] = MOTOR_TIMEOUT
  /\ ForwardedNothing("ctl")

\* C3: clear_faults() run on its own leaves fault NONE, turns status FAULT
\* into IDLE and leaves every other status, the pose and the target as they
\* were; a publish_cmd_vel that follows it returns true.
C3_ClearFaults ==
  /\ Returned("flt", "clear_faults") =>
       /\ fault_state["r1"] = NONE
       /\ status["r1"] =
            (IF pre["flt"].status = FAULT THEN IDLE ELSE pre["flt"].status)
       /\ Pose("r1") = pre["flt"].pose
       /\ Target("r1") = pre["flt"].target
  /\ (Returned("ctl", "publish_cmd_vel") /\ window = "clear")
       => res["ctl"] = TRUE

\* clear_faults returned from a state with a fault other than motor timeout
\* and a status other than FAULT and IDLE, which it left alone
C3_Witness ==
  /\ Returned("flt", "clear_faults")
  /\ pre["flt"].fault = PACKET_DROP
  /\ pre["flt"].status = STUCK
  /\ status["r1"] = STUCK

\* the kind a documented fault identifier names
KindNamed(name) ==
  CASE name = STR_motor_timeout -> MOTOR_TIMEOUT
    [] name = STR_packet_drop -> PACKET_DROP
    [] name = STR_sensor_freeze -> SENSOR_FREEZE

\* C4: inject_fault(kind) with a recognised kind, run on its own, leaves
\* fault = kind whatever the prior fault was; motor_timeout also sets status
\* FAULT, packet_drop and sensor_freeze leave the status unchanged.
C4_InjectFault ==
  (Returned("flt", "inject_fault") /\ arg["flt"] \in FaultNames) =>
    /\ fault_state["r1"] = KindNamed(arg["flt"])
    /\ status["r1"] =
         (IF arg["flt"] = STR_motor_timeout THEN FAULT ELSE pre["flt"].status)

\* inject_fault("sensor_freeze") replaced a motor-timeout fault and left the
\* status FAULT that the earlier injection had set
C4_Witness ==
  /\ Returned("flt", "inject_fault")
  /\ arg["flt"] = STR_sensor_freeze
  /\ pre["flt"].fault = MOTOR_TIMEOUT
  /\ fault_state["r1"] = SENSOR_FREEZE
  /\ status["r1"] = FAULT

\* the upper/lower-case variants of the three fault identifiers
IsCaseVariant(str) == ToLower(str) \in FaultNames
AllLower(str) == str = ToLower(str)
AllUpper(str) == str = CaseVariant(ToLower(str), DOMAIN str)

\* C10 as stated: inject_fault sets the fault kind for every upper/lower-case
\* variant of the three identifiers.
C10_CaseInsensitive ==
  (Returned("flt", "inject_fault") /\ IsCaseVariant(arg["flt"]))
    => fault_state["r1"] = KindNamed(ToLower(arg["flt"]))

\* C10 amended: inject_fault sets the fault kind for the all-lowercase and
\* the all-uppercase spelling of each identifier; every mixed-case variant
\* is treated as unknown and leaves fault and status as they were.
C10_TwoSpellings ==
  (Returned("flt", "inject_fault") /\ IsCaseVariant(arg["flt"])) =>
    IF AllLower(arg["flt"]) \/ AllUpper(arg["flt"])
    THEN fault_state["r1"] = KindNamed(ToLower(arg["flt"]))
    ELSE /\ fault_state["r1"] = pre["flt"].fault
         /\ status["r1"] = pre["flt"].status

\* inject_fault("Motor_Timeout") returned and the fault is still NONE, and
\* inject_fault("PACKET_DROP") has set the packet-drop fault before
C10_Witness ==
  /\ Returned("flt", "inject_fault")
  /\ arg["flt"] = CaseVariant(STR_motor_timeout, WordStarts(STR_motor_timeout))
  /\ pre["flt"].fault = PACKET_DROP
  /\ fault_state["r1"] = PACKET_DROP

\* C11: inject_fault with an identifier that names none of the three fault
\* kinds is a no-op: fault, status, pose and target are what they were when
\* it was called, and the call returns normally.
C11_UnknownFaultIsNoOp ==
  (op["flt"] = "inject_fault" /\ ~IsCaseVariant(arg["flt"])) =>
    /\ pc["flt"] \in {"inj_match", "done"}
    /\ fault_state["r1"] = pre["flt"].fault
    /\ status["r1"] = pre["flt"].status
    /\ Pose("r1") = pre["flt"].pose
    /\ Target("r1") = pre["flt"].target
    /\ pc["flt"] = "done" => res["flt"] = Void

\* inject_fault("bogus") returned on a robot with a packet-drop fault, a
\* status, a pose and a target that are not the initial ones
C11_Witness ==
  /\ Returned("flt", "inject_fault")
  /\ arg["flt"] = <<"b","o","g","u","s">>
  /\ fault_state["r1"] = PACKET_DROP
  /\ status["r1"] = STUCK
  /\ Pose("r1") = <<1, 1, 1>>
  /\ Target("r1") = <<2, 1>>

\* the running publish_cmd_vel call of thread t forwarded its command
Forwarded(t) == ForwardedOnly(t, arg[t])

\* C12: publish_cmd_vel forwards the command and returns true when the fault
\* is NONE or SENSOR_FREEZE; under PACKET_DROP it returns false and forwards
\* nothing exactly when the draw is below 0.5, and otherwise forwards and
\* returns true; it returns true if and only if the command was forwarded.
C12_PublishGate ==
  Returned("ctl", "publish_cmd_vel") =>
    /\ fault_state["r1"] \in {NONE, SENSOR_FREEZE} =>
         (res["ctl"] = TRUE /\ Forwarded("ctl"))
    /\ fault_state["r1"] = PACKET_DROP =>
         /\ tmp["ctl"].d \in Draws
         /\ 2 * tmp["ctl"].d < DrawRes =>
              (res["ctl"] = FALSE /\ ForwardedNothing("ctl"))
         /\ 2 * tmp["ctl"].d >= DrawRes =>
              (res["ctl"] = TRUE /\ Forwarded("ctl"))
    /\ res["ctl"] \in BOOLEAN
    /\ res["ctl"] = TRUE <=> Forwarded("ctl")
    /\ res["ctl"] = FALSE <=> ForwardedNothing("ctl")

\* under PACKET_DROP one publish_cmd_vel call was forwarded and the next one
\* was dropped
C12_Witness ==
  /\ Returned("ctl", "publish_cmd_vel")
  /\ fault_state["r1"] = PACKET_DROP
  /\ res["ctl"] = FALSE
  /\ tmp["ctl"].n0 = 1
  /\ window = "other"

\* ------------------------------------------------------------------------
\* Concurrent specifications: the threads of one robot interleave at every
\* atomic load and store
\* ------------------------------------------------------------------------
InitConc ==
  /\ InitHal
  /\ InitThreads
  /\ InitPure
  /\ sched = "conc"

\* SpecFreeze: the spin thread delivers odometry while faults are injected
\* and cleared
NextFreeze ==
  \/ CallOdomCallback("odom")
  \/ OdomCheck("odom")
  \/ OdomStoreX("odom")
  \/ OdomStoreY("odom")
  \/ OdomStoreYaw("odom")
  \/ CallInjectFault("flt")
  \/ InjectMatch("flt")
  \/ InjectStoreStatus("flt")
  \/ CallClearFaults("flt")
  \/ ClearStoreFault("flt")
  \/ ClearLoadStatus("flt")
  \/ ClearStoreStatus("flt")
  \/ \E t \in {"odom", "flt"} : Return(t)

SpecFreeze == InitConc /\ [][NextFreeze]_vars

\* SpecPose: a reader calls get_pose while the spin thread delivers odometry
NextPose ==
  \/ CallOdomCallback("odom")
  \/ OdomCheck("odom")
  \/ OdomStoreX("odom")
  \/ OdomStoreY("odom")
  \/ OdomStoreYaw("odom")
  \/ CallGetPose("rdr")
  \/ GetPoseLoadX("rdr")
  \/ GetPoseLoadY("rdr")
  \/ \E t \in {"odom", "rdr"} : Return(t)

SpecPose == InitConc /\ [][NextPose]_vars

\* SpecPair: a reader calls get_fault_state and get_status while faults are
\* injected and cleared
NextPair ==
  \/ CallInjectFault("flt")
  \/ InjectMatch("flt")
  \/ InjectStoreStatus("flt")
  \/ CallClearFaults("flt")
  \/ ClearStoreFault("flt")
  \/ ClearLoadStatus("flt")
  \/ ClearStoreStatus("flt")
  \/ CallGetStatus("rdr")
  \/ GetStatusLoad("rdr")
  \/ CallGetFaultState("rdr")
  \/ GetFaultStateLoad("rdr")
  \/ \E t \in {"flt", "rdr"} : Return(t)

SpecPair == InitConc /\ [][NextPair]_vars

\* ------------------------------------------------------------------------
\* Properties of the concurrent specifications
\* ------------------------------------------------------------------------
\* C5: while SENSOR_FREEZE is the active fault, from the return of
\* inject_fault("sensor_freeze") until fault_state_ is next stored, the
\* stored pose x, pose y and yaw keep the values they had at that return.
C5_PoseFrozen ==
  freezeAt # <<>> => Pose("r1") = freezeAt

\* C6: every pair get_pose() returns is the initial pose or the (x, y) of
\* one single odometry message.
C6_PoseSnapshot ==
  Returned("rdr", "get_pose") =>
    res["rdr"] \in {<<0, 0>>} \cup {<<m.x, m.y>> : m \in OdomMsgs}

\* C7: the fault read by get_fault_state and the status read by get_status
\* after it form a (status, fault) pair the robot was in before or after a
\* whole inject_fault or clear_faults, never a mix from inside one.
C7_StatusFaultSnapshot ==
  (obs.complete /\ obs.status # Null) =>
    \E p \in obs.ok : status_to_string(p[1]) = obs.status /\ p[2] = obs.fault

\* ------------------------------------------------------------------------
\* CollisionChecker::check_path_conflict
\* ------------------------------------------------------------------------
\* static_cast<int>(std::round(coord)): the nearest integer of coord / Scale,
\* halfway cases away from zero
to_grid(coord) ==
  IF coord >= 0
  THEN (2 * coord + Scale) \div (2 * Scale)
  ELSE -((2 * (-coord) + Scale) \div (2 * Scale))

\* robot ids in the order std::map<std::string, ...> iterates them
IdOrder == <<"A", "B", "C", "r1", "r2">>

MapKeys(m) == SelectSeq(IdOrder, LAMBDA k : k \in DOMAIN m)

\* a loop that does not skip the caller's own entry
SkipsNone(other_id, robot_id) == FALSE

\* if (other_id == robot_id) continue;
Skips(other_id, robot_id) == other_id = robot_id

\* a loop that never looks at fleet_targets
TargetHitIgnored(other_id, tx, ty, fleet_targets) == FALSE

\* conflict 2: other_id has an entry in fleet_targets in the cell (tx, ty)
TargetHit(other_id, tx, ty, fleet_targets) ==
  /\ other_id \in DOMAIN fleet_targets
  /\ to_grid(fleet_targets[other_id][1]) = tx
  /\ to_grid(fleet_targets[other_id][2]) = ty

\* the for loop over fleet_positions, visiting the ids of keys in order
RECURSIVE ConflictLoop(_, _, _, _, _, _)
ConflictLoop(keys, robot_id, tx, ty, fleet_positions, fleet_targets) ==
  IF keys = <<>> THEN FALSE
  ELSE
    LET other_id == Head(keys)
        pos == fleet_positions[other_id]
        rest == ConflictLoop(Tail(keys), robot_id, tx, ty,
                             fleet_positions, fleet_targets)
    IN IF Skips(other_id, robot_id) THEN rest
       ELSE IF to_grid(pos[1]) = tx /\ to_grid(pos[2]) = ty THEN TRUE
       ELSE IF TargetHit(other_id, tx, ty, fleet_targets) THEN TRUE
       ELSE rest

check_path_conflict(robot_id, tgt_x, tgt_y, fleet_positions, fleet_targets) ==
  ConflictLoop(MapKeys(fleet_positions), robot_id,
               to_grid(tgt_x), to_grid(tgt_y),
               fleet_positions, fleet_targets)

\* ------------------------------------------------------------------------
\* SpecConflict: check_path_conflict applied to a fleet snapshot
\* ------------------------------------------------------------------------
CcIds == {"A", "B", "C"}

\* for Scale = 2: (2.0, 3.0) and (1.5, 2.5) lie in cell (2, 3), (2.0, 3.5)
\* in cell (2, 4), (-1.5, -2.5) and (-2.0, -3.0) in cell (-2, -3)
CcPositions == {<<4, 6>>, <<3, 5>>, <<-3, -5>>}
CcTargets == {<<3, 5>>, <<4, 7>>, <<-4, -6>>}

CcInputs ==
  [ robot_id : CcIds, target : {<<4, 6>>, <<4, 7>>, <<-3, -5>>},
    fleet_positions : UNION {[S -> CcPositions] : S \in SUBSET CcIds},
    fleet_targets : UNION {[S -> CcTargets] : S \in SUBSET CcIds} ]

InitConflict ==
  /\ InitHal
  /\ InitThreads
  /\ sched = "seq"
  /\ ccIn \in CcInputs
  /\ ccOut = [done |-> FALSE, v |-> FALSE]
  /\ InitChecker

ApplyCheckPathConflict ==
  /\ ~ccOut.done
  /\ ccOut' = [ done |-> TRUE,
                v |-> check_path_conflict(ccIn.robot_id, ccIn.target[1],
                        ccIn.target[2], ccIn.fleet_positions,
                        ccIn.fleet_targets) ]
  /\ UNCHANGED <<halVars, thrVars, ghostVars, ccIn, sticky_zone, lastZone,
                 pfIn, pfOut, pfLoc>>

NextConflict == ApplyCheckPathConflict

SpecConflict == InitConflict /\ [][NextConflict]_vars

\* the sequences that list every element of the set S once
Orders(S) ==
  {q \in [1 .. Cardinality(S) -> S] : \A i, j \in DOMAIN q : q[i] = q[j] => i = j}

Abs(n) == IF n >= 0 THEN n ELSE -n

\* the integer nearest to coord / Scale, the one further from zero when two
\* are equally near
NearestCell(coord) ==
  CHOOSE n \in -Abs(coord) .. Abs(coord) :
    \/ 2 * Abs(coord - n * Scale) < Scale
    \/ 2 * Abs(coord - n * Scale) = Scale /\ Abs(n * Scale) > Abs(coord)

SameCell(p, q) ==
  /\ NearestCell(p[1]) = NearestCell(q[1])
  /\ NearestCell(p[2]) = NearestCell(q[2])

\* some robot of positions other than self is in, or heading to, the cell
\* of the point target
SomeOtherInCell(self, target, positions, targets) ==
  \E id \in DOMAIN positions :
    /\ id # self
    /\ \/ SameCell(positions[id], target)
       \/ id \in DOMAIN targets /\ SameCell(targets[id], target)

\* C9: check_path_conflict returns true exactly when some robot id of
\* positions other than self_id has its rounded position, or its rounded
\* entry in targets, equal to the rounded target; the loop gives the same
\* result in whatever order it visits positions.
C9_ConflictIsExistential ==
  ccOut.done =>
    /\ ccOut.v = SomeOtherInCell(ccIn.robot_id, ccIn.target,
                                 ccIn.fleet_positions, ccIn.fleet_targets)
    /\ \A q \in Orders(DOMAIN ccIn.fleet_positions) :
         ConflictLoop(q, ccIn.robot_id, to_grid(ccIn.target[1]),
                      to_grid(ccIn.target[2]), ccIn.fleet_positions,
                      ccIn.fleet_targets) = ccOut.v

\* the check returned false although the caller's own position and target,
\* and the target of a robot absent from positions, are in the target cell
C9_Witness ==
  /\ ccOut.done
  /\ ~ccOut.v
  /\ ccIn.robot_id = "A"
  /\ ccIn.target = <<4, 6>>
  /\ ccIn.fleet_positions = [id \in {"A", "B"} |->
                               IF id = "A" THEN <<3, 5>> ELSE <<-3, -5>>]
  /\ ccIn.fleet_targets = [id \in {"A", "B", "C"} |->
                             IF id = "B" THEN <<4, 7>> ELSE <<3, 5>>]

\* ------------------------------------------------------------------------
\* SpecFleet: the planner of each robot takes a fleet snapshot with the
\* getters of every RobotHAL, calls check_path_conflict for a candidate
\* target and, when the check returns false, commits it with set_target
\* ------------------------------------------------------------------------
RobotOrder == <<"r1", "r2">>

\* (1.5, 1.5) and (2.0, 2.0) lie in cell (2, 2), (1.0, 1.0) in cell (1, 1),
\* for Scale = 2
Candidates == {<<3, 3>>, <<4, 4>>, <<2, 2>>}

CallPlan(t) ==
  /\ \E c \in Candidates :
       Call(t, "plan", c,
            [ i |-> 1, x |-> 0, positions |-> <<>>, targets |-> <<>>,
              conflict |-> FALSE ], "pl_px")
  /\ UNCHANGED <<halVars, ghostVars, pureVars>>

\* get_pose of robot i: pose_x_.load()
PlanPoseX(t) ==
  /\ pc[t] = "pl_px"
  /\ tmp' = Upd(tmp, t, [tmp[t] EXCEPT !.x = pose_x[RobotOrder[tmp[t].i]]])
  /\ Goto(t, "pl_py")
  /\ UNCHANGED <<halVars, op, arg, ghostVars, pureVars>>

\* get_pose of robot i: pose_y_.load()
PlanPoseY(t) ==
  /\ pc[t] = "pl_py"
  /\ LET r == RobotOrder[tmp[t].i] IN
       tmp' = Upd(tmp, t, [tmp[t] EXCEPT
                 !.positions = @ @@ (r :> <<tmp[t].x, pose_y[r]>>)])
  /\ Goto(t, "pl_tx")
  /\ UNCHANGED <<halVars, op, arg, ghostVars, pureVars>>

\* get_target of robot i: target_x_.load()
PlanTargetX(t) ==
  /\ pc[t] = "pl_tx"
  /\ tmp' = Upd(tmp, t, [tmp[t] EXCEPT !.x = target_x[RobotOrder[tmp[t].i]]])
  /\ Goto(t, "pl_ty")
  /\ UNCHANGED <<halVars, op, arg, ghostVars, pureVars>>

\* get_target of robot i: target_y_.load(); then the next robot
PlanTargetY(t) ==
  /\ pc[t] = "pl_ty"
  /\ LET r == RobotOrder[tmp[t].i] IN
       tmp' = Upd(tmp, t, [tmp[t] EXCEPT
                 !.targets = @ @@ (r :> <<tmp[t].x, target_y[r]>>),
                 !.i = IF @ < Len(RobotOrder) THEN @ + 1 ELSE @])
  /\ Goto(t, IF tmp[t].i < Len(RobotOrder) THEN "pl_px" ELSE "pl_check")
  /\ UNCHANGED <<halVars, op, arg, ghostVars, pureVars>>

\* check_path_conflict on the snapshot; set_target follows when it is false
PlanCheck(t) ==
  /\ pc[t] = "pl_check"
  /\ LET c == check_path_conflict(Rob(t), arg[t][1], arg[t][2],
                                  tmp[t].positions, tmp[t].targets) IN
       /\ tmp' = Upd(tmp, t, [tmp[t] EXCEPT !.conflict = c])
       /\ IF c THEN Done(t, TRUE) ELSE Goto(t, "st_x")
  /\ UNCHANGED <<halVars, op, arg, ghostVars, pureVars>>

InitFleet ==
  /\ InitHal
  /\ InitThreads
  /\ InitPure
  /\ sched = "conc"

NextFleet ==
  \/ \E t \in Planners : CallPlan(t)
  \/ \E t \in Planners : PlanPoseX(t)
  \/ \E t \in Planners : PlanPoseY(t)
  \/ \E t \in Planners : PlanTargetX(t)
  \/ \E t \in Planners : PlanTargetY(t)
  \/ \E t \in Planners : PlanCheck(t)
  \/ \E t \in Planners : SetTargetStoreX(t)
  \/ \E t \in Planners : SetTargetStoreY(t)
  \/ \E t \in Planners : Return(t)

SpecFleet == InitFleet /\ [][NextFleet]_vars

\* the planner t has found its candidate free and is committing it, or has
\* committed it
Commits(t) ==
  /\ op[t] = "plan"
  /\ pc[t] \in {"st_x", "st_y", "done"}
  /\ ~tmp[t].conflict

Committed(t) == Commits(t) /\ pc[t] = "done"

\* C8: nothing orders the planners of two robots: each commits its target
\* whenever its own snapshot shows no other robot in or heading to that
\* cell, so both can find the same cell free and both commit to it
\* (C8_Witness is such a state).
C8_CommitOnOwnSnapshot ==
  \A t \in Planners :
    Commits(t) =>
      ~SomeOtherInCell(Rob(t), arg[t], tmp[t].positions, tmp[t].targets)

\* both checks returned false and both robots are committed to cell (2, 2),
\* one with target (1.5, 1.5) and the other with (2.0, 2.0)
C8_Witness ==
  /\ Committed("p1")
  /\ Committed("p2")
  /\ Target("r1") = <<3, 3>>
  /\ Target("r2") = <<4, 4>>
  /\ SameCell(Target("r1"), Target("r2"))

\* ------------------------------------------------------------------------
\* CollisionChecker: the sticky zone
\* ------------------------------------------------------------------------
MaxEdge == 2        \* set_sticky_zone is called with edges in 0 .. MaxEdge
MaxWaypoints == 3   \* the longest path handed to the waypoint checks

\* a containment test that excludes the two upper edges
containsBelowMax(z, x, y) ==
  /\ x >= z.x_min * Scale
  /\ x < z.x_max * Scale
  /\ y >= z.y_min * Scale
  /\ y < z.y_max * Scale

\* StickyZone::contains: the int edges are converted to double and compared
\* with the coordinates
contains(z, x, y) ==
  /\ x >= z.x_min * Scale
  /\ x <= z.x_max * Scale
  /\ y >= z.y_min * Scale
  /\ y <= z.y_max * Scale

is_in_sticky_zone(z, x, y) == contains(z, x, y)

\* the for loop of check_waypoints, from the waypoint of 0-based index i on
RECURSIVE CheckLoop(_, _, _, _)
CheckLoop(z, waypoints, i, results) ==
  IF i >= Len(waypoints) THEN results
  ELSE CheckLoop(z, waypoints, i + 1,
                 Append(results,
                        is_in_sticky_zone(z, waypoints[i + 1][1],
                                          waypoints[i + 1][2])))

check_waypoints(z, waypoints) == CheckLoop(z, waypoints, 0, <<>>)

\* the for loop of find_first_sticky_waypoint, from 0-based index i on
RECURSIVE FindLoop(_, _, _)
FindLoop(z, waypoints, i) ==
  IF i >= Len(waypoints) THEN -1
  ELSE IF is_in_sticky_zone(z, waypoints[i + 1][1], waypoints[i + 1][2])
  THEN i
  ELSE FindLoop(z, waypoints, i + 1)

\* a search that never looks at the first waypoint
find_from_second_waypoint(z, waypoints) == FindLoop(z, waypoints, 1)

find_first_sticky_waypoint(z, waypoints) == FindLoop(z, waypoints, 0)

\* ------------------------------------------------------------------------
\* SpecZone: the zone is configured any number of times and then queried
\* ------------------------------------------------------------------------
ZoneEdges == 0 .. MaxEdge
ZoneCoords == -1 .. (MaxEdge * Scale + 1)
ZonePoints == ZoneCoords \X ZoneCoords

\* the waypoints of the paths: points of the diagonal below, on and above
\* the edges a zone can have
PathCoords == {-1, 0, Scale, MaxEdge * Scale, MaxEdge * Scale + 1}
PathPoints == {<<c, c>> : c \in PathCoords}
Paths == UNION {[1 .. n -> PathPoints] : n \in 0 .. MaxWaypoints}

SetStickyZone ==
  /\ ~pfOut.done
  /\ \E x_min \in ZoneEdges, x_max \in ZoneEdges,
        y_min \in ZoneEdges, y_max \in ZoneEdges :
       /\ sticky_zone' = [ x_min |-> x_min, x_max |-> x_max,
                           y_min |-> y_min, y_max |-> y_max ]
       /\ lastZone' = <<x_min, x_max, y_min, y_max>>
  /\ UNCHANGED <<halVars, thrVars, ghostVars, ccIn, ccOut, pfIn, pfOut,
                 pfLoc>>

ApplyIsInStickyZone ==
  /\ ~pfOut.done
  /\ \E p \in ZonePoints :
       /\ pfIn' = [op |-> "is_in_sticky_zone", x |-> p[1], y |-> p[2]]
       /\ pfOut' = [ done |-> TRUE,
                     v |-> is_in_sticky_zone(sticky_zone, p[1], p[2]) ]
  /\ UNCHANGED <<halVars, thrVars, ghostVars, ccIn, ccOut, sticky_zone,
                 lastZone, pfLoc>>

ApplyCheckWaypoints ==
  /\ ~pfOut.done
  /\ \E path \in Paths :
       /\ pfIn' = [op |-> "check_waypoints", waypoints |-> path]
       /\ pfOut' = [done |-> TRUE, v |-> check_waypoints(sticky_zone, path)]
  /\ UNCHANGED <<halVars, thrVars, ghostVars, ccIn, ccOut, sticky_zone,
                 lastZone, pfLoc>>

ApplyFindFirstStickyWaypoint ==
  /\ ~pfOut.done
  /\ \E path \in Paths :
       /\ pfIn' = [op |-> "find_first_sticky_waypoint", waypoints |-> path]
       /\ pfOut' = [ done |-> TRUE,
                     v |-> find_first_sticky_waypoint(sticky_zone, path) ]
  /\ UNCHANGED <<halVars, thrVars, ghostVars, ccIn, ccOut, sticky_zone,
                 lastZone, pfLoc>>

InitZone ==
  /\ InitHal
  /\ InitThreads
  /\ InitPure
  /\ sched = "seq"

NextZone ==
  \/ SetStickyZone
  \/ ApplyIsInStickyZone
  \/ ApplyCheckWaypoints
  \/ ApplyFindFirstStickyWaypoint

SpecZone == InitZone /\ [][NextZone]_vars

\* the function of name o has been applied
Applied(o) == pfOut.done /\ pfIn.op = o

\* C13: after any sequence of set_sticky_zone calls, is_in_sticky_zone(x, y)
\* is true if and only if x_min <= x <= x_max and y_min <= y <= y_max for the
\* bounds of the last call, all four edges inclusive; for a zone with
\* x_min > x_max or y_min > y_max it is false for every point.
C13_ZoneMembership ==
  (Applied("is_in_sticky_zone") /\ lastZone # <<>>) =>
    LET x_min == lastZone[1]
        x_max == lastZone[2]
        y_min == lastZone[3]
        y_max == lastZone[4]
    IN /\ pfOut.v \in BOOLEAN
       /\ pfOut.v <=> /\ x_min * Scale <= pfIn.x
                      /\ pfIn.x <= x_max * Scale
                      /\ y_min * Scale <= pfIn.y
                      /\ pfIn.y <= y_max * Scale
       /\ (x_min > x_max \/ y_min > y_max) => pfOut.v = FALSE

\* a point on the upper x edge and the lower y edge of the zone configured
\* last is reported inside
C13_Witness ==
  /\ Applied("is_in_sticky_zone")
  /\ lastZone = <<0, 1, 1, 2>>
  /\ pfIn.x = Scale
  /\ pfIn.y = Scale
  /\ pfOut.v = TRUE

\* the 0-based indices of the entries of the sequence of booleans bs that
\* are true
TrueAt(bs) == {i \in 0 .. (Len(bs) - 1) : bs[i + 1]}

\* C14: check_waypoints(path) has the length of path and its i-th entry is
\* is_in_sticky_zone(path[i]); find_first_sticky_waypoint(path) is the least
\* index whose check_waypoints entry is true, and -1 exactly when no entry is
\* true, the empty path included.
C14_WaypointChecks ==
  /\ Applied("check_waypoints") =>
       /\ Len(pfOut.v) = Len(pfIn.waypoints)
       /\ \A i \in 1 .. Len(pfIn.waypoints) :
            pfOut.v[i] = is_in_sticky_zone(sticky_zone, pfIn.waypoints[i][1],
                                           pfIn.waypoints[i][2])
  /\ Applied("find_first_sticky_waypoint") =>
       LET hits == TrueAt(check_waypoints(sticky_zone, pfIn.waypoints)) IN
       /\ hits = {} <=> pfOut.v = -1
       /\ hits # {} => (pfOut.v \in hits /\ \A i \in hits : pfOut.v <= i)

\* the search returned index 0 for a path whose first and third waypoints
\* are in the zone and whose second is not
C14_Witness ==
  /\ Applied("find_first_sticky_waypoint")
  /\ pfOut.v = 0
  /\ Len(pfIn.waypoints) = 3
  /\ check_waypoints(sticky_zone, pfIn.waypoints) = <<TRUE, FALSE, TRUE>>

\* ------------------------------------------------------------------------
\* double arithmetic of the path smoother.  A double is an integer number of
\* grains, one grain being 2^-FracBits, whose magnitude is m * 2^e with
\* m < 2^MantBits and e >= 0: a binary floating-point format with MantBits
\* significand bits and gradual underflow at one grain.  Every operation
\* returns the double nearest to the exact result, ties to the even
\* significand, as IEEE 754 arithmetic does.
\* ------------------------------------------------------------------------
MantBits == 5     \* significand bits of a double
FracBits == 4     \* the smallest positive double is 2^-FracBits

RECURSIVE Pow2(_)
Pow2(n) == IF n = 0 THEN 1 ELSE 2 * Pow2(n - 1)

Grain == Pow2(FracBits)
MantLimit == Pow2(MantBits)

\* the distance between neighbouring doubles at the rational num / den >= 0
RECURSIVE StepOf(_, _, _)
StepOf(num, den, step) ==
  IF num < den * step * MantLimit THEN step ELSE StepOf(num, den, 2 * step)

RoundPos(num, den) ==
  LET step == StepOf(num, den, 1)
      q == num \div (den * step)
      r == num - q * den * step
  IN IF 2 * r < den * step THEN q * step
     ELSE IF 2 * r > den * step THEN (q + 1) * step
     ELSE IF q % 2 = 0 THEN q * step
     ELSE (q + 1) * step

\* the double nearest to num / den grains
Fl(num, den) ==
  IF den > 0
  THEN (IF num >= 0 THEN RoundPos(num, den) ELSE -RoundPos(-num, den))
  ELSE (IF num <= 0 THEN RoundPos(-num, -den) ELSE -RoundPos(num, -den))

fadd(a, b) == Fl(a + b, 1)
fsub(a, b) == Fl(a - b, 1)
fmul(a, b) == Fl(a * b, Grain)
fdiv(a, b) == Fl(a * Grain, b)

\* static_cast<double>(i), and the double of the literal num / den
FromInt(i) == Fl(i * Grain, 1)
Lit(num, den) == Fl(num * Grain, den)

\* the largest integer whose square is at most n, lo * lo <= n < hi * hi
RECURSIVE ISqrt(_, _, _)
ISqrt(n, lo, hi) ==
  IF hi - lo <= 1 THEN lo
  ELSE LET mid == (lo + hi) \div 2 IN
       IF mid * mid <= n THEN ISqrt(n, mid, hi) ELSE ISqrt(n, lo, mid)

\* std::sqrt: the double nearest to the square root of a
fsqrt(a) ==
  LET n == a * Grain
      f == ISqrt(n, 0, n + 1)
      step == StepOf(f, 1, 1)
      q == f \div step
      lo == q * step
      hi == lo + step
  IN IF lo * lo = n THEN lo
     ELSE IF (lo + hi) * (lo + hi) > 4 * n THEN lo
     ELSE IF (lo + hi) * (lo + hi) < 4 * n THEN hi
     ELSE IF q % 2 = 0 THEN lo
     ELSE hi

\* ------------------------------------------------------------------------
\* smooth_path
\* ------------------------------------------------------------------------
\* the linear interpolation loop for two waypoints, from i on
RECURSIVE LinearLoop(_, _, _, _)
LinearLoop(waypoints, points_per_segment, i, result) ==
  IF i > points_per_segment THEN result
  ELSE
    LET t == fdiv(FromInt(i), FromInt(points_per_segment))
        pt == << fadd(waypoints[1][1],
                      fmul(t, fsub(waypoints[2][1], waypoints[1][1]))),
                 fadd(waypoints[1][2],
                      fmul(t, fsub(waypoints[2][2], waypoints[1][2]))) >>
    IN LinearLoop(waypoints, points_per_segment, i + 1, Append(result, pt))

\* the Catmull-Rom basis functions b0, b1, b2, b3 at t
Basis(t) ==
  LET t2 == fmul(t, t)
      t3 == fmul(t2, t)
  IN << fsub(fadd(fmul(-Lit(1, 2), t3), t2), fmul(Lit(1, 2), t)),
        fadd(fsub(fmul(Lit(3, 2), t3), fmul(Lit(5, 2), t2)), Lit(1, 1)),
        fadd(fadd(fmul(-Lit(3, 2), t3), fmul(Lit(2, 1), t2)),
             fmul(Lit(1, 2), t)),
        fsub(fmul(Lit(1, 2), t3), fmul(Lit(1, 2), t2)) >>

\* b0 * p0[c] + b1 * p1[c] + b2 * p2[c] + b3 * p3[c]
Blend(b, p0, p1, p2, p3, c) ==
  fadd(fadd(fadd(fmul(b[1], p0[c]), fmul(b[2], p1[c])), fmul(b[3], p2[c])),
       fmul(b[4], p3[c]))

\* the inner loop over j of segment i (0-based)
RECURSIVE SplineSegment(_, _, _, _, _)
SplineSegment(waypoints, points_per_segment, i, j, result) ==
  IF j >= points_per_segment THEN result
  ELSE
    LET n == Len(waypoints)
        p0 == IF i = 0 THEN waypoints[1] ELSE waypoints[i]
        p1 == waypoints[i + 1]
        p2 == waypoints[i + 2]
        p3 == IF i = n - 2 THEN waypoints[i + 2] ELSE waypoints[i + 3]
        b == Basis(fdiv(FromInt(j), FromInt(points_per_segment)))
        pt == <<Blend(b, p0, p1, p2, p3, 1), Blend(b, p0, p1, p2, p3, 2)>>
    IN SplineSegment(waypoints, points_per_segment, i, j + 1,
                     Append(result, pt))

\* the outer loop over the segments, from segment i on
RECURSIVE SplineLoop(_, _, _, _)
SplineLoop(waypoints, points_per_segment, i, result) ==
  IF i >= Len(waypoints) - 1 THEN result
  ELSE SplineLoop(waypoints, points_per_segment, i + 1,
                  SplineSegment(waypoints, points_per_segment, i, 0, result))

\* a smooth_path whose two-point branch stops one sample early
smooth_path_short(waypoints, points_per_segment) ==
  IF Len(waypoints) < 2 THEN waypoints
  ELSE IF Len(waypoints) = 2
  THEN LinearLoop(waypoints, points_per_segment - 1, 0, <<>>)
  ELSE Append(SplineLoop(waypoints, points_per_segment, 0, <<>>),
              waypoints[Len(waypoints)])

smooth_path(waypoints, points_per_segment) ==
  IF Len(waypoints) < 2 THEN waypoints
  ELSE IF Len(waypoints) = 2
  THEN LinearLoop(waypoints, points_per_segment, 0, <<>>)
  ELSE Append(SplineLoop(waypoints, points_per_segment, 0, <<>>),
              waypoints[Len(waypoints)])

\* ------------------------------------------------------------------------
\* bezier_smooth
\* ------------------------------------------------------------------------
\* the quadratic Bezier value at t for one coordinate
Quadratic(t, prev, ctrl1, curr) ==
  LET u == fsub(Lit(1, 1), t) IN
  fadd(fadd(fmul(fmul(u, u), prev),
            fmul(fmul(fmul(Lit(2, 1), u), t), ctrl1)),
       fmul(fmul(t, t), curr))

\* the loop over j = 1 .. 5 for the interior waypoint of 0-based index i
RECURSIVE BezierSamples(_, _, _, _, _)
BezierSamples(waypoints, tension, i, j, result) ==
  IF j > 5 THEN result
  ELSE
    LET prev == waypoints[i]
        curr == waypoints[i + 1]
        ctrl1_x == fsub(curr[1], fmul(tension, fsub(curr[1], prev[1])))
        ctrl1_y == fsub(curr[2], fmul(tension, fsub(curr[2], prev[2])))
        t == fdiv(FromInt(j), Lit(5, 1))
        x == Quadratic(t, prev[1], ctrl1_x, curr[1])
        y == Quadratic(t, prev[2], ctrl1_y, curr[2])
        last == result[Len(result)]
    IN BezierSamples(waypoints, tension, i, j + 1,
         IF result = <<>> \/ last[1] # x \/ last[2] # y
         THEN Append(result, <<x, y>>)
         ELSE result)

\* the loop over the interior waypoints, from 0-based index i on
RECURSIVE BezierLoop(_, _, _, _)
BezierLoop(waypoints, tension, i, result) ==
  IF i >= Len(waypoints) - 1 THEN result
  ELSE BezierLoop(waypoints, tension, i + 1,
                  BezierSamples(waypoints, tension, i, 1, result))

bezier_smooth(waypoints, tension) ==
  IF Len(waypoints) < 3 THEN waypoints
  ELSE Append(BezierLoop(waypoints, tension, 1, <<waypoints[1]>>),
              waypoints[Len(waypoints)])

\* ------------------------------------------------------------------------
\* moving_average_smooth
\* ------------------------------------------------------------------------
\* the loop over j = -half_window .. half_window around index i (0-based):
\* acc is (sum_x, sum_y, count)
RECURSIVE WindowLoop(_, _, _, _, _)
WindowLoop(waypoints, half_window, i, j, acc) ==
  IF j > half_window THEN acc
  ELSE
    LET idx == i + j IN
    WindowLoop(waypoints, half_window, i, j + 1,
      IF idx >= 0 /\ idx < Len(waypoints)
      THEN << fadd(acc[1], waypoints[idx + 1][1]),
              fadd(acc[2], waypoints[idx + 1][2]), acc[3] + 1 >>
      ELSE acc)

RECURSIVE AverageLoop(_, _, _, _)
AverageLoop(waypoints, half_window, i, result) ==
  IF i >= Len(waypoints) THEN result
  ELSE
    LET acc == WindowLoop(waypoints, half_window, i, -half_window,
                          <<0, 0, 0>>)
    IN AverageLoop(waypoints, half_window, i + 1,
         Append(result, << fdiv(acc[1], FromInt(acc[3])),
                           fdiv(acc[2], FromInt(acc[3])) >>))

moving_average_smooth(waypoints, window_size) ==
  IF Len(waypoints) < 3 \/ window_size < 2 THEN waypoints
  ELSE
    LET result == AverageLoop(waypoints, window_size \div 2, 0, <<>>) IN
    [result EXCEPT ![1] = waypoints[1],
                   ![Len(result)] = waypoints[Len(waypoints)]]

\* ------------------------------------------------------------------------
\* SpecSmooth: one of the three smoothing functions is applied to a path
\* ------------------------------------------------------------------------
MaxSegPoints == 3   \* the largest points_per_segment
MaxWindow == 3      \* the largest window_size

\* coordinates in grains: 0.0, 1.0, minus two grains, and the largest double
\* below 2^MantBits grains
SmCoords == {0, Grain, -2, MantLimit - 1}
SmPoints == SmCoords \X {0, Grain}
SmPaths == UNION {[1 .. n -> SmPoints] : n \in 0 .. MaxWaypoints}
Tensions == {Lit(1, 2), Lit(1, 4)}

ApplySmoothPath ==
  /\ ~pfOut.done
  /\ \E path \in SmPaths, k \in 1 .. MaxSegPoints :
       /\ pfIn' = [ op |-> "smooth_path", waypoints |-> path,
                    points_per_segment |-> k ]
       /\ pfOut' = [done |-> TRUE, v |-> smooth_path(path, k)]
  /\ UNCHANGED <<halVars, thrVars, ghostVars, ccIn, ccOut, sticky_zone,
                 lastZone, pfLoc>>

ApplyBezierSmooth ==
  /\ ~pfOut.done
  /\ \E path \in SmPaths, tension \in Tensions :
       /\ pfIn' = [ op |-> "bezier_smooth", waypoints |-> path,
                    tension |-> tension ]
       /\ pfOut' = [done |-> TRUE, v |-> bezier_smooth(path, tension)]
  /\ UNCHANGED <<halVars, thrVars, ghostVars, ccIn, ccOut, sticky_zone,
                 lastZone, pfLoc>>

ApplyMovingAverageSmooth ==
  /\ ~pfOut.done
  /\ \E path \in SmPaths, w \in 1 .. MaxWindow :
       /\ pfIn' = [ op |-> "moving_average_smooth", waypoints |-> path,
                    window_size |-> w ]
       /\ pfOut' = [done |-> TRUE, v |-> moving_average_smooth(path, w)]
  /\ UNCHANGED <<halVars, thrVars, ghostVars, ccIn, ccOut, sticky_zone,
                 lastZone, pfLoc>>

InitSmooth ==
  /\ InitHal
  /\ InitThreads
  /\ InitPure
  /\ sched = "seq"

NextSmooth ==
  \/ ApplySmoothPath
  \/ ApplyBezierSmooth
  \/ ApplyMovingAverageSmooth

SpecSmooth == InitSmooth /\ [][NextSmooth]_vars

First(path) == path[1]
Last(path) == path[Len(path)]

\* C15: for every non-empty path, the first and last waypoints of the output
\* of smooth_path, bezier_smooth and moving_average_smooth are equal to the
\* first and last waypoints of the input, whatever the length of the path.
C15_EndpointsPreserved ==
  ( /\ pfOut.done
    /\ pfIn.op \in {"smooth_path", "bezier_smooth", "moving_average_smooth"}
    /\ pfIn.waypoints # <<>> ) =>
    /\ pfOut.v # <<>>
    /\ First(pfOut.v) = First(pfIn.waypoints)
    /\ Last(pfOut.v) = Last(pfIn.waypoints)

\* the number x lies between a and b
Between(x, a, b) == (a <= x /\ x <= b) \/ (b <= x /\ x <= a)

\* C17: smooth_path(path, k) returns a path of fewer than 2 points unchanged
\* and otherwise (n-1)*k + 1 points for n waypoints; for n = 2 these are the
\* k+1 interpolants between the two waypoints, the first being the first
\* waypoint, the last the second waypoint and the others between them.
C17_SmoothPathPoints ==
  Applied("smooth_path") =>
    LET n == Len(pfIn.waypoints)
        k == pfIn.points_per_segment
    IN /\ n < 2 => pfOut.v = pfIn.waypoints
       /\ n >= 2 => Len(pfOut.v) = (n - 1) * k + 1
       /\ n = 2 =>
            /\ First(pfOut.v) = pfIn.waypoints[1]
            /\ Last(pfOut.v) = pfIn.waypoints[2]
            /\ \A i \in 1 .. Len(pfOut.v) : \A c \in 1 .. 2 :
                 Between(pfOut.v[i][c], pfIn.waypoints[1][c],
                         pfIn.waypoints[2][c])

\* ------------------------------------------------------------------------
\* path_length / resample_path
\* ------------------------------------------------------------------------
IntBits == 5      \* the width of int

IntMax == Pow2(IntBits - 1) - 1
IntMin == -Pow2(IntBits - 1)

\* int addition as the hardware does it, wrapping around
WrapInt(n) ==
  IF n > IntMax THEN n - Pow2(IntBits)
  ELSE IF n < IntMin THEN n + Pow2(IntBits)
  ELSE n

\* static_cast<int>(d): truncation toward zero; for a value outside the range
\* of int the conversion is undefined: x86 (cvttsd2si) gives INT_MIN, a
\* saturating conversion (AArch64 fcvtzs) gives INT_MAX
CastInt(d) ==
  LET q == IF d >= 0 THEN d \div Grain ELSE -((-d) \div Grain) IN
  IF q >= IntMin /\ q <= IntMax THEN {q} ELSE {IntMin, IntMax}

Max(a, b) == IF a >= b THEN a ELSE b

\* the length of the segment from waypoint i to waypoint i + 1 (1-based)
SegmentLength(waypoints, i) ==
  LET dx == fsub(waypoints[i + 1][1], waypoints[i][1])
      dy == fsub(waypoints[i + 1][2], waypoints[i][2])
  IN fsqrt(fadd(fmul(dx, dx), fmul(dy, dy)))

RECURSIVE LengthLoop(_, _, _)
LengthLoop(waypoints, i, length) ==
  IF i >= Len(waypoints) THEN length
  ELSE LengthLoop(waypoints, i + 1,
                  fadd(length, SegmentLength(waypoints, i)))

path_length(waypoints) ==
  IF Len(waypoints) < 2 THEN 0 ELSE LengthLoop(waypoints, 1, 0)

\* the values num_points can take
NumPoints(total_length, target_spacing) ==
  { Max(2, WrapInt(c + 1)) : c \in CastInt(fdiv(total_length, target_spacing)) }

\* a final step that never appends the last waypoint
EnsureFinalNever(result, waypoints) == result

\* if the last point of result differs from the last waypoint, append it
EnsureFinal(result, waypoints) ==
  IF result[Len(result)][1] # waypoints[Len(waypoints)][1]
     \/ result[Len(result)][2] # waypoints[Len(waypoints)][2]
  THEN Append(result, waypoints[Len(waypoints)])
  ELSE result

\* a cap that ends the inner loop one point earlier
BelowCapEarly(result, num_points) == Len(result) < num_points - 2

\* result.size() < static_cast<size_t>(num_points) - 1
BelowCap(result, num_points) == Len(result) < num_points - 1

\* ------------------------------------------------------------------------
\* SpecResample: resample_path is called once; every iteration of its loops
\* is a step
\* ------------------------------------------------------------------------
RsPoints == {0, Grain, 2 * Grain} \X {0, Grain}
RsPaths == UNION {[1 .. n -> RsPoints] : n \in 0 .. MaxWaypoints}
\* target_spacing: 0.25, 0.5, 1.0, 1.5 and 3.0
Spacings == {Lit(1, 4), Lit(1, 2), Lit(1, 1), Lit(3, 2), Lit(3, 1)}

\* the calls of resample_path
RsCalls ==
  [ op : {"resample_path"}, waypoints : RsPaths, target_spacing : Spacings ]

\* the call, up to the first test of the outer loop
CallResamplePath ==
  /\ pfLoc.pc = "call"
  /\ LET waypoints == pfIn.waypoints IN
       IF Len(waypoints) < 2
       THEN /\ pfOut' = [done |-> TRUE, v |-> waypoints]
            /\ pfLoc' = [pc |-> "returned"]
       ELSE /\ \E num_points \in
                   NumPoints(path_length(waypoints), pfIn.target_spacing) :
                 pfLoc' = [ pc |-> "walk", num_points |-> num_points,
                            result |-> <<waypoints[1]>>,
                            accumulated |-> 0,
                            next_target |-> pfIn.target_spacing,
                            segment |-> 0, iter |-> 0 ]
            /\ pfOut' = pfOut
  /\ UNCHANGED <<halVars, thrVars, ghostVars, ccIn, ccOut, sticky_zone,
                 lastZone, pfIn>>

\* the condition of the inner while loop
EmitCondition ==
  /\ fadd(pfLoc.accumulated,
          SegmentLength(pfIn.waypoints, pfLoc.segment + 1))
       >= pfLoc.next_target
  /\ BelowCap(pfLoc.result, pfLoc.num_points)

\* one iteration of the inner while loop
ResampleEmit ==
  /\ pfLoc.pc = "walk"
  /\ pfLoc.segment < Len(pfIn.waypoints) - 1
  /\ EmitCondition
  /\ LET w == pfIn.waypoints
         i == pfLoc.segment + 1
         dx == fsub(w[i + 1][1], w[i][1])
         dy == fsub(w[i + 1][2], w[i][2])
         t == fdiv(fsub(pfLoc.next_target, pfLoc.accumulated),
                   SegmentLength(w, i))
         pt == <<fadd(w[i][1], fmul(t, dx)), fadd(w[i][2], fmul(t, dy))>>
     IN pfLoc' = [pfLoc EXCEPT
                    !.result = Append(@, pt),
                    !.next_target = fadd(@, pfIn.target_spacing),
                    !.iter = @ + 1]
  /\ UNCHANGED <<halVars, thrVars, ghostVars, ccIn, ccOut, sticky_zone,
                 lastZone, pfIn, pfOut>>

\* the inner loop is left: accumulated += segment_length; ++segment
ResampleAdvance ==
  /\ pfLoc.pc = "walk"
  /\ pfLoc.segment < Len(pfIn.waypoints) - 1
  /\ ~EmitCondition
  /\ pfLoc' = [pfLoc EXCEPT
                 !.accumulated =
                    fadd(@, SegmentLength(pfIn.waypoints, pfLoc.segment + 1)),
                 !.segment = @ + 1,
                 !.iter = @ + 1]
  /\ UNCHANGED <<halVars, thrVars, ghostVars, ccIn, ccOut, sticky_zone,
                 lastZone, pfIn, pfOut>>

\* the outer loop is left: the final point is ensured and result returned
ResampleReturn ==
  /\ pfLoc.pc = "walk"
  /\ pfLoc.segment >= Len(pfIn.waypoints) - 1
  /\ pfOut' = [done |-> TRUE, v |-> EnsureFinal(pfLoc.result, pfIn.waypoints)]
  /\ pfLoc' = [pfLoc EXCEPT !.pc = "returned"]
  /\ UNCHANGED <<halVars, thrVars, ghostVars, ccIn, ccOut, sticky_zone,
                 lastZone, pfIn>>

InitResample ==
  /\ InitHal
  /\ InitThreads
  /\ sched = "seq"
  /\ ccIn = <<>>
  /\ ccOut = [done |-> FALSE, v |-> FALSE]
  /\ sticky_zone = [x_min |-> 5, x_max |-> 7, y_min |-> 5, y_max |-> 7]
  /\ lastZone = <<>>
  /\ pfIn \in RsCalls
  /\ pfOut = NoResult
  /\ pfLoc = [pc |-> "call"]

NextResample ==
  \/ CallResamplePath
  \/ ResampleEmit
  \/ ResampleAdvance
  \/ ResampleReturn

SpecResample == InitResample /\ [][NextResample]_vars

\* C16: for every path p of at least 2 points and every spacing s > 0, the
\* length of resample_path(p, s) differs from the length of p by at most s.
C16_LengthWithinSpacing ==
  (Applied("resample_path") /\ Len(pfIn.waypoints) >= 2) =>
    Abs(path_length(pfOut.v) - path_length(pfIn.waypoints))
      <= pfIn.target_spacing

\* C18: for every path of at least 2 points and every spacing s > 0,
\* resample_path terminates, after at most one loop iteration per segment and
\* one per point below the cap num_points - 1, and its output begins with the
\* first waypoint and ends with the last waypoint.
C18_ResampleTerminates ==
  (pfIn.op = "resample_path" /\ Len(pfIn.waypoints) >= 2) =>
    /\ pfLoc.pc \in {"walk", "returned"} =>
         /\ pfLoc.segment <= Len(pfIn.waypoints) - 1
         /\ Len(pfLoc.result) <= pfLoc.num_points - 1
         /\ pfLoc.iter = pfLoc.segment + Len(pfLoc.result) - 1
    /\ pfLoc.pc = "returned" => pfOut.done
    /\ pfOut.done =>
         /\ pfOut.v # <<>>
         /\ First(pfOut.v) = First(pfIn.waypoints)
         /\ Last(pfOut.v) = Last(pfIn.waypoints)

\* resample_path returned for a path that turns back, after emitting points
\* on both segments and appending the last waypoint
C18_Witness ==
  /\ Applied("resample_path")
  /\ pfIn.waypoints = <<<<0, 0>>, <<2 * Grain, 0>>, <<Grain, 0>>>>
  /\ pfIn.target_spacing = Lit(1, 2)
  /\ pfLoc.iter = 7
  /\ Len(pfOut.v) = 7
  /\ Last(pfOut.v) = <<Grain, 0>>

\* the target point count as the specification gives it:
\* n = max(2, floor(L / s) + 1), L the length of the path
TargetCount(waypoints, target_spacing) ==
  Max(2, (path_length(waypoints) \div target_spacing) + 1)

\* C21: for every path of at least 2 points, of length L, and every spacing
\* s > 0, the output of resample_path has at least 2 points and at most
\* n = max(2, floor(L / s) + 1) points, closed paths (last waypoint equal to
\* the first) included.
C21_PointCount ==
  (Applied("resample_path") /\ Len(pfIn.waypoints) >= 2) =>
    /\ Len(pfOut.v) >= 2
    /\ Len(pfOut.v) <= TargetCount(pfIn.waypoints, pfIn.target_spacing)

\* ------------------------------------------------------------------------
\* SpecInFlight: the control loop publishes commands while faults are
\* injected and cleared on another thread
\* ------------------------------------------------------------------------
NextInFlight ==
  \/ CallPublishCmdVel("ctl")
  \/ PubLoad("ctl")
  \/ PubSend("ctl")
  \/ CallInjectFault("flt")
  \/ InjectMatch("flt")
  \/ InjectStoreStatus("flt")
  \/ CallClearFaults("flt")
  \/ ClearStoreFault("flt")
  \/ ClearLoadStatus("flt")
  \/ ClearStoreStatus("flt")
  \/ \E t \in {"ctl", "flt"} : Return(t)

SpecInFlight == InitConc /\ [][NextInFlight]_vars

\* C19: when publish_cmd_vel runs concurrently with
\* inject_fault("motor_timeout"), no command is forwarded to the transport
\* at a moment when the stored fault is MOTOR_TIMEOUT and the injection has
\* completed (no fault operation called since): a publish call that read
\* the fault before the injection does not forward its command after it.
C19_NoForwardAfterInjection ==
  [][ (Len(transport'["r1"]) > Len(transport["r1"]))
        => ~(fault_state["r1"] = MOTOR_TIMEOUT /\ window = "motor_timeout") ]_vars

\* ------------------------------------------------------------------------
\* SpecFaults: two threads inject and clear faults on the same robot;
\* set_status is never called
\* ------------------------------------------------------------------------
NextFaults ==
  \/ \E t \in {"ctl", "flt"} : CallInjectFault(t)
  \/ \E t \in {"ctl", "flt"} : InjectMatch(t)
  \/ \E t \in {"ctl", "flt"} : InjectStoreStatus(t)
  \/ \E t \in {"ctl", "flt"} : CallClearFaults(t)
  \/ \E t \in {"ctl", "flt"} : ClearStoreFault(t)
  \/ \E t \in {"ctl", "flt"} : ClearLoadStatus(t)
  \/ \E t \in {"ctl", "flt"} : ClearStoreStatus(t)
  \/ \E t \in {"ctl", "flt"} : Return(t)

SpecFaults == InitConc /\ [][NextFaults]_vars

\* C20: when set_status is never called and inject_fault and clear_faults
\* run concurrently, every state with no inject_fault or clear_faults call
\* in progress has status FAULT if the fault is MOTOR_TIMEOUT and a status
\* other than FAULT if the fault is NONE.
C20_QuiescentConsistent ==
  FaultOpsRunning = {} =>
    /\ fault_state["r1"] = MOTOR_TIMEOUT => status["r1"] = FAULT
    /\ fault_state["r1"] = NONE => status["r1"] # FAULT

====
